---- MODULE Spec2Model ----
(***************************************************************************)
(* Model of sky/check.py: the credential check run (check_capabilities),   *)
(* from name resolution through the concurrent probes, the aggregation of  *)
(* their outcomes and the per-capability reconciliation of the enabled     *)
(* clouds kept in global_user_state.                                       *)
(*                                                                         *)
(* Strings whose characters the code inspects (cloud names, reasons) are   *)
(* sequences of one-character strings, so that lower(), startswith() and   *)
(* strip() are computed and not assumed.                                   *)
(***************************************************************************)
EXTENDS Integers, Sequences, FiniteSets, TLC

(***************************************************************************)
(* Bounds of the exploration.                                              *)
(***************************************************************************)
\* longest `clouds` argument of a run
MaxReq == 1
\* most (cloud, capability) pairs of a run; runs of more pairs are not explored
MaxPairs == 4

(***************************************************************************)
(* Names.                                                                  *)
(***************************************************************************)
aws == <<"a", "w", "s">>
GCP_in == <<"G", "C", "P">>
cf_r2 == <<"C", "l", "o", "u", "d", "F", "l", "a", "r", "e", "R", "2">>
ibm == <<"i", "b", "m">>

AWS == <<"A", "W", "S">>
GCP == <<"G", "C", "P">>
\* 'cloudflare' of line 64
cloudflare_prefix == <<"c", "l", "o", "u", "d", "f", "l", "a", "r", "e">>
\* variant: the lower-case prefix of line 64 used at lines 140-148
Cloudflare_prefix_lower == <<"c", "l", "o", "u", "d", "f", "l", "a", "r", "e">>
\* 'Cloudflare' of lines 140, 144 and 148
Cloudflare_prefix == <<"C", "l", "o", "u", "d", "f", "l", "a", "r", "e">>
\* cloudflare.NAME
cloudflare_NAME == <<"C", "l", "o", "u", "d", "f", "l", "a", "r", "e">>

\* the names a caller may request: a registered cloud, a pseudo-provider
\* and a name nobody knows (the configuration also names GCP_in)
RequestNames == {aws, cf_r2, ibm}

\* str.lower() on one character
LowerChar(ch) ==
    CASE ch = "A" -> "a" [] ch = "C" -> "c" [] ch = "F" -> "f"
      [] ch = "G" -> "g" [] ch = "P" -> "p" [] ch = "R" -> "r"
      [] ch = "S" -> "s" [] ch = "W" -> "w" [] OTHER -> ch

\* str.lower()
lower(s) == [i \in 1..Len(s) |-> LowerChar(s[i])]

\* str.startswith(prefix)
startswith(s, prefix) ==
    /\ Len(s) >= Len(prefix)
    /\ SubSeq(s, 1, Len(prefix)) = prefix

\* registry.CLOUD_REGISTRY: lower-case name -> repr of the registered cloud
CLOUD_REGISTRY == (lower(AWS) :> AWS) @@ (lower(GCP) :> GCP)

\* registry.CLOUD_REGISTRY.values(), as reprs, in registration order
REGISTRY_VALUES == <<AWS, GCP>>

NotFound == <<"?">>

\* registry.CLOUD_REGISTRY.from_str(name): the cloud, or no cloud
from_str(name) ==
    IF lower(name) \in DOMAIN CLOUD_REGISTRY
    THEN CLOUD_REGISTRY[lower(name)]
    ELSE NotFound

\* get_cloud_tuple(cloud_name)[0]; NotFound stands for the failed
\* resolution (the assertion of line 68, or the registry's own error)
get_cloud_tuple(cloud_name) ==
    IF startswith(lower(cloud_name), cloudflare_prefix)
    THEN cloudflare_NAME
    ELSE from_str(cloud_name)

\* get_all_clouds()
get_all_clouds == REGISTRY_VALUES \o <<cloudflare_NAME>>

\* every repr a run can meet
Names == {AWS, GCP, cloudflare_NAME}

(***************************************************************************)
(* Capabilities.                                                           *)
(***************************************************************************)
COMPUTE == "COMPUTE"
STORAGE == "STORAGE"
Capabilities == {COMPUTE, STORAGE}
\* sky_cloud.ALL_CAPABILITIES
ALL_CAPABILITIES == <<COMPUTE, STORAGE>>

(***************************************************************************)
(* Optional values and strings.                                            *)
(***************************************************************************)
\* Python's None where a string or a result tuple is expected
None == <<"None">>
\* a slot of check_results whose probe has not returned yet
Pending == <<"Pending">>

IsSpace(ch) == ch \in {" ", "\n"}

RECURSIVE lstrip(_)
lstrip(s) ==
    IF s # <<>> /\ IsSpace(Head(s)) THEN lstrip(Tail(s)) ELSE s

RECURSIVE rstrip(_)
rstrip(s) ==
    IF s # <<>> /\ IsSpace(s[Len(s)])
    THEN rstrip(SubSeq(s, 1, Len(s) - 1))
    ELSE s

\* str.strip()
strip(s) == rstrip(lstrip(s))

\* traceback.format_exc()
format_exc == <<"T", "r", "a", "c", "e", "\n">>

(***************************************************************************)
(* The probe of one cloud for one capability.                              *)
(***************************************************************************)
\* what cloud.check_credentials(capability) may do: return (ok, reason),
\* raise exceptions.NotSupportedError, or raise anything else
CredentialBehaviours ==
    { [raises |-> "no", ok |-> TRUE, reason |-> None],
      [raises |-> "no", ok |-> FALSE, reason |-> <<" ", "e", "\n">>],
      [raises |-> "NotSupportedError"],
      [raises |-> "Exception"] }

\* variant: the traceback of a caught exception is not kept as the reason
check_one_cloud_one_capability_noreason(payload, b) ==
    IF b.raises = "NotSupportedError" THEN None
    ELSE IF b.raises = "Exception" THEN <<payload[2], FALSE, None>>
    ELSE <<payload[2], b.ok,
           IF b.reason # None /\ b.reason # <<>> THEN strip(b.reason) ELSE None>>

\* variant: every exception is treated like NotSupportedError
check_one_cloud_one_capability_swallow(payload, b) ==
    IF b.raises \in {"NotSupportedError", "Exception"} THEN None
    ELSE <<payload[2], b.ok,
           IF b.reason # None /\ b.reason # <<>> THEN strip(b.reason) ELSE None>>

\* check_one_cloud_one_capability(payload), given what check_credentials does
check_one_cloud_one_capability(payload, b) ==
    LET capability == payload[2]
        caught == b.raises = "Exception"
        ok == IF caught THEN FALSE ELSE b.ok
        raw == IF caught THEN format_exc ELSE b.reason
        reason == IF raw # None /\ raw # <<>> THEN strip(raw) ELSE None
    IN  IF b.raises = "NotSupportedError"
        THEN None
        ELSE <<capability, ok, reason>>

(***************************************************************************)
(* State.                                                                  *)
(***************************************************************************)
VARIABLES
    cache,                          \* global_user_state: capability -> enabled reprs
    pc,                             \* position of the run
    clouds,                         \* argument `clouds` of the run
    capabilities,                   \* argument `capabilities`, defaulted
    allowed_clouds,                 \* 'allowed_clouds' of the configuration
    clouds_to_check,                \* reprs to probe
    config_allowed_cloud_names,     \* reprs the configuration allows
    combinations,                   \* (cloud, capability) pairs to probe
    check_results,                  \* result per pair, by position
    enabled_clouds,                 \* repr -> capabilities that passed
    disabled_clouds,                \* repr -> capabilities that failed
    capability_idx,                 \* position of the reconciliation loop
    previously_enabled_clouds_set,  \* cache content read for the capability
    all_enabled_clouds,             \* union of the sets written
    outcome,                        \* how the run ended
    behaviours,                     \* history: what check_credentials did, per pair
    previous,                       \* history: cache content the run read, per capability
    reads,                          \* history: cache reads of the run, per capability
    writes,                         \* history: cache writes of the run, per capability
    caller,                         \* the call of get_cached_enabled_clouds_or_refresh
    second                          \* a second run of check_capabilities, from its loop on

\* the cache and the variables of a run of check_capabilities
run_vars == <<cache, pc, clouds, capabilities, allowed_clouds, clouds_to_check,
              config_allowed_cloud_names, combinations, check_results,
              enabled_clouds, disabled_clouds, capability_idx,
              previously_enabled_clouds_set, all_enabled_clouds, outcome,
              behaviours, previous, reads, writes>>

vars == <<run_vars, caller, second>>

Range(s) == {s[i] : i \in DOMAIN s}

RECURSIVE SeqsUpTo(_, _)
\* the sequences over S of length at most n
SeqsUpTo(S, n) ==
    IF n = 0 THEN {<<>>}
    ELSE LET shorter == SeqsUpTo(S, n - 1)
         IN  shorter \cup {Append(q, x) : q \in shorter, x \in S}

\* an absent argument or configuration key
Absent == [is_none |-> TRUE]
Given(v) == [is_none |-> FALSE, value |-> v]

\* the `clouds` arguments explored
CloudsArgs == {Absent} \cup {Given(q) : q \in SeqsUpTo(RequestNames, MaxReq)}
\* the `capabilities` arguments explored
CapabilitiesArgs ==
    {Absent, Given(<<COMPUTE>>), Given(<<STORAGE>>), Given(<<>>)}
\* the 'allowed_clouds' configurations explored
AllowedConfigs ==
    {Absent, Given(<<>>), Given(<<aws>>), Given(<<GCP_in>>), Given(<<cf_r2>>),
     Given(<<ibm>>), Given(<<aws, GCP_in>>)}

NoCounts == [c \in Capabilities |-> 0]
NoSets == [c \in Capabilities |-> {}]
\* check_credentials has not returned yet
NotYet == [raises |-> "pending"]

\* no call of get_cached_enabled_clouds_or_refresh is under way
NoCaller ==
    [pc |-> "none", capability |-> COMPUTE, raise_if_no_cloud_access |-> FALSE,
     cached_enabled_clouds |-> {}, result |-> "none", entry |-> NoSets,
     runs |-> 0]

\* no second run of check_capabilities is under way
NoSecond ==
    [pc |-> "none", capabilities |-> <<>>, capability_idx |-> 0,
     config_allowed_cloud_names |-> {}, enabled_clouds |-> <<>>,
     disabled_clouds |-> <<>>, previously_enabled_clouds_set |-> {},
     base |-> NoSets]

Init ==
    /\ cache = [c \in Capabilities |-> {}]
    /\ pc = "idle"
    /\ clouds = Absent
    /\ capabilities = <<>>
    /\ allowed_clouds = Absent
    /\ clouds_to_check = <<>>
    /\ config_allowed_cloud_names = {}
    /\ combinations = <<>>
    /\ check_results = <<>>
    /\ enabled_clouds = <<>>
    /\ disabled_clouds = <<>>
    /\ capability_idx = 0
    /\ previously_enabled_clouds_set = {}
    /\ all_enabled_clouds = {}
    /\ outcome = "none"
    /\ behaviours = <<>>
    /\ previous = NoSets
    /\ reads = NoCounts
    /\ writes = NoCounts
    /\ caller = NoCaller
    /\ second = NoSecond

(***************************************************************************)
(* check_capabilities, lines 37-97: defaults, name resolution, filtering.  *)
(***************************************************************************)
\* [get_cloud_tuple(c)[0] for c in list]
resolve(list) == [i \in 1..Len(list) |-> get_cloud_tuple(list[i])]

RECURSIVE Filter(_, _)
\* variant: the pseudo-provider is kept whatever the allow-list says
Filter_pseudo_bypass(list, keep) ==
    SelectSeq(list, LAMBDA x : x \in keep \/ startswith(x, Cloudflare_prefix))

\* [x for x in list if x in keep]
Filter(list, keep) ==
    IF list = <<>> THEN <<>>
    ELSE IF Head(list) \in keep
         THEN <<Head(list)>> \o Filter(Tail(list), keep)
         ELSE Filter(Tail(list), keep)

\* list(itertools.product(xs, ys))
product(xs, ys) ==
    [k \in 1..(Len(xs) * Len(ys)) |->
        <<xs[((k - 1) \div Len(ys)) + 1], ys[((k - 1) % Len(ys)) + 1]>>]

\* the list the names of line 79 are taken from
cloud_list(clouds_arg) ==
    IF clouds_arg.is_none THEN get_all_clouds ELSE clouds_arg.value

\* the list the names of lines 83-86 are taken from
allowed_list(config) ==
    IF config.is_none THEN get_all_clouds ELSE config.value

\* a name of the list does not resolve: get_cloud_tuple raises
Unresolvable(list) == \E i \in 1..Len(list) : get_cloud_tuple(list[i]) = NotFound

\* line 79 raises: a requested name does not resolve
UnresolvableRequested(clouds_arg) == Unresolvable(cloud_list(clouds_arg))

\* variant: the names of the configuration are not validated
UnresolvableAllowed_unchecked(config) == FALSE

\* lines 83-86 raise: a name of the configuration does not resolve
UnresolvableAllowed(config) == Unresolvable(allowed_list(config))

Start(clouds_arg, capabilities_arg, config) ==
    /\ pc = "idle"
    /\ clouds' = clouds_arg
    /\ allowed_clouds' = config
    /\ capabilities' = IF capabilities_arg.is_none THEN ALL_CAPABILITIES
                       ELSE capabilities_arg.value
    /\ enabled_clouds' = <<>>
    /\ disabled_clouds' = <<>>
    /\ capability_idx' = 0
    /\ previously_enabled_clouds_set' = {}
    /\ all_enabled_clouds' = {}
    /\ previous' = NoSets
    /\ reads' = NoCounts
    /\ writes' = NoCounts
    /\ IF UnresolvableRequested(clouds_arg) \/ UnresolvableAllowed(config)
       THEN /\ pc' = "done"
            /\ outcome' = "error"
            /\ clouds_to_check' = <<>>
            /\ config_allowed_cloud_names' = {}
            /\ combinations' = <<>>
            /\ check_results' = <<>>
            /\ behaviours' = <<>>
       ELSE LET resolved == resolve(cloud_list(clouds_arg))
                allowed == Range(resolve(allowed_list(config)))
                to_check == Filter(resolved, allowed)
            IN  /\ Len(to_check) * Len(capabilities') <= MaxPairs
                /\ pc' = "probing"
                /\ outcome' = "none"
                /\ clouds_to_check' = to_check
                /\ config_allowed_cloud_names' = allowed
                /\ combinations' = product(to_check, capabilities')
                /\ check_results' = [k \in 1..Len(combinations') |-> Pending]
                /\ behaviours' = [k \in 1..Len(combinations') |-> NotYet]
    /\ UNCHANGED cache

(***************************************************************************)
(* Lines 98-100: subprocess_utils.run_in_parallel runs the probes          *)
(* concurrently; each result lands at the position of its pair.            *)
(***************************************************************************)
\* variant: a probe that failed is run again
Probe_retry(i, b) ==
    /\ pc = "probing"
    /\ i \in 1..Len(combinations)
    /\ \/ check_results[i] = Pending
       \/ /\ check_results[i] # Pending
          /\ check_results[i] # None
          /\ ~check_results[i][2]
    /\ check_results' =
         [check_results EXCEPT
            ![i] = check_one_cloud_one_capability(combinations[i], b)]
    /\ behaviours' = [behaviours EXCEPT ![i] = b]
    /\ UNCHANGED <<cache, pc, clouds, capabilities, allowed_clouds,
                   clouds_to_check, config_allowed_cloud_names, combinations,
                   enabled_clouds, disabled_clouds, capability_idx,
                   previously_enabled_clouds_set, all_enabled_clouds, outcome,
                   previous, reads, writes>>

\* subprocess_utils.run_in_parallel: the place, in the list it returns, of
\* the result of its i-th argument
run_in_parallel_position(i) == i

Probe(i, b) ==
    /\ pc = "probing"
    /\ i \in 1..Len(combinations)
    /\ check_results[run_in_parallel_position(i)] = Pending
    /\ check_results' =
         [check_results EXCEPT
            ![run_in_parallel_position(i)] =
                check_one_cloud_one_capability(combinations[i], b)]
    /\ behaviours' = [behaviours EXCEPT ![i] = b]
    /\ UNCHANGED <<cache, pc, clouds, capabilities, allowed_clouds,
                   clouds_to_check, config_allowed_cloud_names, combinations,
                   enabled_clouds, disabled_clouds, capability_idx,
                   previously_enabled_clouds_set, all_enabled_clouds, outcome,
                   previous, reads, writes>>

(***************************************************************************)
(* Lines 102-121: the fold of the results into enabled_clouds and          *)
(* disabled_clouds.                                                        *)
(***************************************************************************)
\* variant: d[k] = [v]
setdefault_append_overwrite(d, k, v) ==
    [x \in DOMAIN d \cup {k} |-> IF x = k THEN <<v>> ELSE d[x]]

\* d.setdefault(k, []).append(v)
setdefault_append(d, k, v) ==
    IF k \in DOMAIN d
    THEN [d EXCEPT ![k] = Append(@, v)]
    ELSE [x \in DOMAIN d \cup {k} |-> IF x = k THEN <<v>> ELSE d[x]]

RECURSIVE aggregate_reversed(_, _, _, _, _)
\* variant: the results are paired with the combinations in reverse order
aggregate_reversed(i, combos, results, enabled, disabled) ==
    IF i > Len(combos) THEN <<enabled, disabled>>
    ELSE LET check_result == results[i]
             cloud_repr == combos[Len(combos) + 1 - i][1]
         IN  IF check_result = None
             THEN aggregate_reversed(i + 1, combos, results, enabled, disabled)
             ELSE IF check_result[2]
                  THEN aggregate_reversed(i + 1, combos, results,
                         setdefault_append(enabled, cloud_repr, check_result[1]),
                         disabled)
                  ELSE aggregate_reversed(i + 1, combos, results, enabled,
                         setdefault_append(disabled, cloud_repr, check_result[1]))

RECURSIVE aggregate(_, _, _, _, _)
\* the loop of lines 109-121 from position i on; yields the two dicts
aggregate(i, combos, results, enabled, disabled) ==
    IF i > Len(combos) THEN <<enabled, disabled>>
    ELSE LET check_result == results[i]
             cloud_repr == combos[i][1]
         IN  IF check_result = None
             THEN aggregate(i + 1, combos, results, enabled, disabled)
             ELSE IF check_result[2]
                  THEN aggregate(i + 1, combos, results,
                         setdefault_append(enabled, cloud_repr, check_result[1]),
                         disabled)
                  ELSE aggregate(i + 1, combos, results, enabled,
                         setdefault_append(disabled, cloud_repr, check_result[1]))

Aggregate ==
    /\ pc = "probing"
    /\ \A i \in 1..Len(combinations) : check_results[i] # Pending
    /\ LET dicts == aggregate(1, combinations, check_results, <<>>, <<>>)
       IN  /\ enabled_clouds' = dicts[1]
           /\ disabled_clouds' = dicts[2]
    /\ all_enabled_clouds' = {}
    /\ capability_idx' = 1
    /\ pc' = "read"
    /\ UNCHANGED <<cache, clouds, capabilities, allowed_clouds, clouds_to_check,
                   config_allowed_cloud_names, combinations, check_results,
                   previously_enabled_clouds_set, outcome, behaviours,
                   previous, reads, writes>>

(***************************************************************************)
(* Lines 133-160: reconciliation, one capability after the other.          *)
(***************************************************************************)
\* variant: a cloud counts for every capability once it is in the dict
clouds_set_anycap(d, capability) ==
    {cloud \in DOMAIN d : ~startswith(cloud, Cloudflare_prefix)}

\* lines 138-141 and 142-145: the clouds of dict d holding the capability
clouds_set(d, capability) ==
    {cloud \in DOMAIN d :
        /\ capability \in Range(d[cloud])
        /\ ~startswith(cloud, Cloudflare_prefix)}

\* lines 146-149
config_allowed_clouds_set(allowed) ==
    {cloud \in allowed : ~startswith(cloud, Cloudflare_prefix)}

\* global_user_state.get_cached_enabled_clouds(capability), as reprs
get_cached_enabled_clouds(capability) == cache[capability]

\* variant: no intersection with the allowed clouds
enabled_clouds_for_capability_noallow(allowed, previously, enabled, disabled) ==
    (previously \cup enabled) \ disabled

\* variant: the newly disabled clouds are not removed
enabled_clouds_for_capability_keepfailed(allowed, previously, enabled, disabled) ==
    config_allowed_clouds_set(allowed) \cap (previously \cup enabled)

\* variant: `^` in place of `|`
enabled_clouds_for_capability_xor(allowed, previously, enabled, disabled) ==
    config_allowed_clouds_set(allowed) \cap
        (((previously \ enabled) \cup (enabled \ previously)) \ disabled)

\* variant: what was enabled before is not carried over
enabled_clouds_for_capability_fresh(allowed, previously, enabled, disabled) ==
    config_allowed_clouds_set(allowed) \cap (enabled \ disabled)

\* lines 154-156
enabled_clouds_for_capability(allowed, previously, enabled, disabled) ==
    config_allowed_clouds_set(allowed) \cap ((previously \cup enabled) \ disabled)

\* lines 150-153
ReadCache ==
    /\ pc = "read"
    /\ capability_idx <= Len(capabilities)
    /\ LET capability == capabilities[capability_idx]
       IN  /\ previously_enabled_clouds_set' = get_cached_enabled_clouds(capability)
           /\ previous' =
                [previous EXCEPT ![capability] = get_cached_enabled_clouds(capability)]
           /\ reads' = [reads EXCEPT ![capability] = @ + 1]
    /\ pc' = "write"
    /\ UNCHANGED <<cache, clouds, capabilities, allowed_clouds, clouds_to_check,
                   config_allowed_cloud_names, combinations, check_results,
                   enabled_clouds, disabled_clouds, capability_idx,
                   all_enabled_clouds, outcome, behaviours, writes>>

\* variant: all_enabled_clouds is assigned, not united
WriteCache_assign ==
    /\ pc = "write"
    /\ LET capability == capabilities[capability_idx]
           new_enabled ==
             enabled_clouds_for_capability(
               config_allowed_cloud_names, previously_enabled_clouds_set,
               clouds_set(enabled_clouds, capability),
               clouds_set(disabled_clouds, capability))
       IN  /\ cache' = [cache EXCEPT ![capability] = new_enabled]
           /\ all_enabled_clouds' = new_enabled
           /\ writes' = [writes EXCEPT ![capability] = @ + 1]
    /\ capability_idx' = capability_idx + 1
    /\ pc' = "read"
    /\ UNCHANGED <<clouds, capabilities, allowed_clouds, clouds_to_check,
                   config_allowed_cloud_names, combinations, check_results,
                   enabled_clouds, disabled_clouds,
                   previously_enabled_clouds_set, outcome, behaviours,
                   previous, reads>>

\* variant: the write is skipped when the set did not change
WriteCache_skip_unchanged ==
    /\ pc = "write"
    /\ LET capability == capabilities[capability_idx]
           new_enabled ==
             enabled_clouds_for_capability(
               config_allowed_cloud_names, previously_enabled_clouds_set,
               clouds_set(enabled_clouds, capability),
               clouds_set(disabled_clouds, capability))
       IN  /\ cache' = [cache EXCEPT ![capability] = new_enabled]
           /\ all_enabled_clouds' = all_enabled_clouds \cup new_enabled
           /\ writes' = IF new_enabled = previously_enabled_clouds_set
                        THEN writes
                        ELSE [writes EXCEPT ![capability] = @ + 1]
    /\ capability_idx' = capability_idx + 1
    /\ pc' = "read"
    /\ UNCHANGED <<clouds, capabilities, allowed_clouds, clouds_to_check,
                   config_allowed_cloud_names, combinations, check_results,
                   enabled_clouds, disabled_clouds,
                   previously_enabled_clouds_set, outcome, behaviours,
                   previous, reads>>

\* lines 154-160: global_user_state.set_enabled_clouds and the union
WriteCache ==
    /\ pc = "write"
    /\ LET capability == capabilities[capability_idx]
           new_enabled ==
             enabled_clouds_for_capability(
               config_allowed_cloud_names, previously_enabled_clouds_set,
               clouds_set(enabled_clouds, capability),
               clouds_set(disabled_clouds, capability))
       IN  /\ cache' = [cache EXCEPT ![capability] = new_enabled]
           /\ all_enabled_clouds' = all_enabled_clouds \cup new_enabled
           /\ writes' = [writes EXCEPT ![capability] = @ + 1]
    /\ capability_idx' = capability_idx + 1
    /\ pc' = "read"
    /\ UNCHANGED <<clouds, capabilities, allowed_clouds, clouds_to_check,
                   config_allowed_cloud_names, combinations, check_results,
                   enabled_clouds, disabled_clouds,
                   previously_enabled_clouds_set, outcome, behaviours,
                   previous, reads>>

(***************************************************************************)
(* Lines 167-203: SystemExit when nothing is enabled, else the dict.       *)
(***************************************************************************)
Finish ==
    /\ pc = "read"
    /\ capability_idx > Len(capabilities)
    /\ outcome' = IF all_enabled_clouds = {} THEN "SystemExit" ELSE "returned"
    /\ pc' = "done"
    /\ UNCHANGED <<cache, clouds, capabilities, allowed_clouds, clouds_to_check,
                   config_allowed_cloud_names, combinations, check_results,
                   enabled_clouds, disabled_clouds, capability_idx,
                   previously_enabled_clouds_set, all_enabled_clouds,
                   behaviours, previous, reads, writes>>

\* the call is over: its locals are gone, the cache stays
Return ==
    /\ pc = "done"
    /\ pc' = "idle"
    /\ clouds' = Absent
    /\ capabilities' = <<>>
    /\ allowed_clouds' = Absent
    /\ clouds_to_check' = <<>>
    /\ config_allowed_cloud_names' = {}
    /\ combinations' = <<>>
    /\ check_results' = <<>>
    /\ enabled_clouds' = <<>>
    /\ disabled_clouds' = <<>>
    /\ capability_idx' = 0
    /\ previously_enabled_clouds_set' = {}
    /\ all_enabled_clouds' = {}
    /\ outcome' = "none"
    /\ behaviours' = <<>>
    /\ previous' = NoSets
    /\ reads' = NoCounts
    /\ writes' = NoCounts
    /\ UNCHANGED cache

\* check_capabilities called on its own
Next ==
    \/ \E clouds_arg \in CloudsArgs, capabilities_arg \in CapabilitiesArgs,
          config \in AllowedConfigs :
          Start(clouds_arg, capabilities_arg, config) /\ UNCHANGED <<caller, second>>
    \/ \E i \in 1..Len(combinations), b \in CredentialBehaviours :
          Probe(i, b) /\ UNCHANGED <<caller, second>>
    \/ Aggregate /\ UNCHANGED <<caller, second>>
    \/ ReadCache /\ UNCHANGED <<caller, second>>
    \/ WriteCache /\ UNCHANGED <<caller, second>>
    \/ Finish /\ UNCHANGED <<caller, second>>
    \/ Return /\ UNCHANGED <<caller, second>>

Spec == Init /\ [][Next]_vars

\* a probe under way returns or raises
ProbeCompletes ==
    \E i \in 1..Len(combinations), b \in CredentialBehaviours :
        Probe(i, b) /\ UNCHANGED <<caller, second>>

\* the sequential code of lines 102-203 goes on
RunGoesOn ==
    (Aggregate \/ ReadCache \/ WriteCache \/ Finish) /\ UNCHANGED <<caller, second>>

\* every probe that was started completes and the run is not suspended
FairSpec ==
    Init /\ [][Next]_vars /\ WF_vars(ProbeCompletes) /\ WF_vars(RunGoesOn)

(***************************************************************************)
(* Lines 206-217: check_capability runs check_capabilities for the one     *)
(* capability and keeps the clouds whose list holds it.                    *)
(***************************************************************************)
\* lines 212-213
check_capability_call(capability, clouds_arg, config) ==
    Start(clouds_arg, Given(<<capability>>), config)

\* variant: what is returned is what the cache now holds
returned_enabled_clouds_persisted ==
    [p \in all_enabled_clouds |->
        SelectSeq(capabilities, LAMBDA c : p \in cache[c])]

\* line 203: the dict check_capabilities returns
returned_enabled_clouds == enabled_clouds

\* lines 214-217, as a set
check_capability(capability) ==
    {cloud \in DOMAIN returned_enabled_clouds :
        capability \in Range(returned_enabled_clouds[cloud])}

(***************************************************************************)
(* Lines 230-262: get_cached_enabled_clouds_or_refresh.                    *)
(***************************************************************************)
\* variant: the refresh is for the capability asked for
refresh_capability_asked(capability) == capability

\* line 249: the capability the refresh checks
refresh_capability(capability) == COMPUTE

\* lines 245-247
Call(capability, raise_if_no_cloud_access) ==
    /\ pc = "idle"
    /\ caller.pc = "none"
    /\ caller' =
         [pc |-> IF get_cached_enabled_clouds(capability) = {}
                 THEN "refresh" ELSE "check",
          capability |-> capability,
          raise_if_no_cloud_access |-> raise_if_no_cloud_access,
          cached_enabled_clouds |-> get_cached_enabled_clouds(capability),
          result |-> "none",
          entry |-> cache,
          runs |-> 0]
    /\ UNCHANGED run_vars

\* variant: the refresh is made whatever the cache holds
Refresh_always(config) ==
    /\ caller.pc \in {"refresh", "check"}
    /\ caller.runs = 0
    /\ check_capability_call(refresh_capability(caller.capability), Absent, config)
    /\ caller' = [caller EXCEPT !.pc = "running", !.runs = @ + 1]

\* lines 248-249: check_capability(..., quiet=True)
Refresh(config) ==
    /\ caller.pc = "refresh"
    /\ check_capability_call(refresh_capability(caller.capability), Absent, config)
    /\ caller' = [caller EXCEPT !.pc = "running", !.runs = @ + 1]

\* variant: SystemExit is not caught
RefreshDone_propagate ==
    /\ caller.pc = "running"
    /\ pc = "done"
    /\ caller' =
         IF outcome = "error"
         THEN [caller EXCEPT !.pc = "done", !.result = "error"]
         ELSE IF outcome = "SystemExit"
         THEN [caller EXCEPT !.pc = "done", !.result = "SystemExit"]
         ELSE [caller EXCEPT
                 !.pc = "check",
                 !.cached_enabled_clouds =
                     get_cached_enabled_clouds(caller.capability)]
    /\ UNCHANGED run_vars

\* lines 250-256: SystemExit is swallowed, any other exception leaves the
\* function; then the cache is read again
RefreshDone ==
    /\ caller.pc = "running"
    /\ pc = "done"
    /\ caller' =
         IF outcome = "error"
         THEN [caller EXCEPT !.pc = "done", !.result = "error"]
         ELSE [caller EXCEPT
                 !.pc = "check",
                 !.cached_enabled_clouds =
                     get_cached_enabled_clouds(caller.capability)]
    /\ UNCHANGED run_vars

\* lines 257-262
RaiseOrReturn ==
    /\ caller.pc = "check"
    /\ caller' =
         [caller EXCEPT
            !.pc = "done",
            !.result = IF /\ caller.raise_if_no_cloud_access
                          /\ caller.cached_enabled_clouds = {}
                       THEN "NoCloudAccessError" ELSE "returned"]
    /\ UNCHANGED run_vars

\* the call is over: its locals and those of its refresh are gone
CallerReturn ==
    /\ caller.pc = "done"
    /\ caller' = NoCaller
    /\ IF pc = "done" THEN Return ELSE UNCHANGED run_vars

\* check_capabilities called on its own or by
\* get_cached_enabled_clouds_or_refresh
NextRefresh ==
    \/ caller.pc = "none" /\ Next
    \/ \E capability \in Capabilities, raise_if_no_cloud_access \in BOOLEAN :
          Call(capability, raise_if_no_cloud_access) /\ UNCHANGED second
    \/ \E config \in AllowedConfigs : Refresh(config) /\ UNCHANGED second
    \/ /\ caller.pc = "running"
       /\ \/ \E i \in 1..Len(combinations), b \in CredentialBehaviours : Probe(i, b)
          \/ Aggregate
          \/ ReadCache
          \/ WriteCache
          \/ Finish
       /\ UNCHANGED <<caller, second>>
    \/ RefreshDone /\ UNCHANGED second
    \/ RaiseOrReturn /\ UNCHANGED second
    \/ CallerReturn /\ UNCHANGED second

SpecRefresh == Init /\ [][NextRefresh]_vars

(***************************************************************************)
(* Two runs of check_capabilities against the same cache store, as two     *)
(* requests served at once make them. The second run shares the            *)
(* configuration; its lines 75-121 touch nothing shared and are taken in   *)
(* one step, its loop of lines 134-160 one cache operation at a time.      *)
(***************************************************************************)
\* the `clouds` arguments of the two runs
ConcurrentCloudsArgs == {Given(<<aws>>), Given(<<cf_r2>>)}

\* the `capabilities` arguments of the two runs
ConcurrentCapabilitiesArgs == {Absent, Given(<<COMPUTE>>)}

\* the configurations the two runs share
ConcurrentConfigs == {Absent, Given(<<aws>>), Given(<<cf_r2>>)}

\* lines 75-121 of the second run, started while the first one probes
SecondStart(clouds_arg, capabilities_arg) ==
    /\ pc = "probing"
    /\ second.pc = "none"
    /\ ~UnresolvableRequested(clouds_arg)
    /\ LET caps == IF capabilities_arg.is_none THEN ALL_CAPABILITIES
                   ELSE capabilities_arg.value
           allowed == Range(resolve(allowed_list(allowed_clouds)))
           to_check == Filter(resolve(cloud_list(clouds_arg)), allowed)
           combos == product(to_check, caps)
       IN  \E bs \in [1..Len(combos) -> CredentialBehaviours] :
             LET results ==
                   [k \in 1..Len(combos) |->
                      check_one_cloud_one_capability(combos[k], bs[k])]
                 dicts == aggregate(1, combos, results, <<>>, <<>>)
             IN  second' =
                   [pc |-> "read", capabilities |-> caps, capability_idx |-> 1,
                    config_allowed_cloud_names |-> allowed,
                    enabled_clouds |-> dicts[1], disabled_clouds |-> dicts[2],
                    previously_enabled_clouds_set |-> {}, base |-> cache]
    /\ UNCHANGED <<run_vars, caller>>

\* lines 150-153 of the second run
SecondReadCache ==
    /\ second.pc = "read"
    /\ second.capability_idx <= Len(second.capabilities)
    /\ second' =
         [second EXCEPT
            !.pc = "write",
            !.previously_enabled_clouds_set =
                get_cached_enabled_clouds(
                    second.capabilities[second.capability_idx])]
    /\ UNCHANGED <<run_vars, caller>>

\* lines 154-160 of the second run
SecondWriteCache ==
    /\ second.pc = "write"
    /\ LET capability == second.capabilities[second.capability_idx]
       IN  cache' =
             [cache EXCEPT
                ![capability] =
                    enabled_clouds_for_capability(
                      second.config_allowed_cloud_names,
                      second.previously_enabled_clouds_set,
                      clouds_set(second.enabled_clouds, capability),
                      clouds_set(second.disabled_clouds, capability))]
    /\ second' = [second EXCEPT !.pc = "read", !.capability_idx = @ + 1]
    /\ UNCHANGED <<pc, clouds, capabilities, allowed_clouds, clouds_to_check,
                   config_allowed_cloud_names, combinations, check_results,
                   enabled_clouds, disabled_clouds, capability_idx,
                   previously_enabled_clouds_set, all_enabled_clouds, outcome,
                   behaviours, previous, reads, writes, caller>>

\* lines 167-203 of the second run
SecondFinish ==
    /\ second.pc = "read"
    /\ second.capability_idx > Len(second.capabilities)
    /\ second' = [second EXCEPT !.pc = "done"]
    /\ UNCHANGED <<run_vars, caller>>

\* both calls are over
BothReturn ==
    /\ second.pc = "done"
    /\ Return
    /\ second' = NoSecond
    /\ UNCHANGED caller

NextConcurrent ==
    \/ \E clouds_arg \in ConcurrentCloudsArgs,
          capabilities_arg \in ConcurrentCapabilitiesArgs,
          config \in ConcurrentConfigs :
          Start(clouds_arg, capabilities_arg, config)
            /\ UNCHANGED <<caller, second>>
    \/ second.pc = "none" /\ Return /\ UNCHANGED <<caller, second>>
    \/ /\ \/ \E i \in 1..Len(combinations), b \in CredentialBehaviours : Probe(i, b)
          \/ Aggregate
          \/ ReadCache
          \/ WriteCache
          \/ Finish
       /\ UNCHANGED <<caller, second>>
    \/ \E clouds_arg \in ConcurrentCloudsArgs,
          capabilities_arg \in ConcurrentCapabilitiesArgs :
          SecondStart(clouds_arg, capabilities_arg)
    \/ SecondReadCache
    \/ SecondWriteCache
    \/ SecondFinish
    \/ BothReturn

SpecConcurrent == Init /\ [][NextConcurrent]_vars

(***************************************************************************)
(* Lines 150-158 with a cache store that can raise: the loop has no        *)
(* handler, so the exception of get_cached_enabled_clouds or of            *)
(* set_enabled_clouds leaves check_capabilities at once.                   *)
(***************************************************************************)
\* line 152 raises
ReadCacheRaises ==
    /\ pc = "read"
    /\ capability_idx <= Len(capabilities)
    /\ pc' = "done"
    /\ outcome' = "cache_error"
    /\ UNCHANGED <<cache, clouds, capabilities, allowed_clouds, clouds_to_check,
                   config_allowed_cloud_names, combinations, check_results,
                   enabled_clouds, disabled_clouds, capability_idx,
                   previously_enabled_clouds_set, all_enabled_clouds,
                   behaviours, previous, reads, writes>>

\* line 157 raises: nothing is stored
WriteCacheRaises ==
    /\ pc = "write"
    /\ pc' = "done"
    /\ outcome' = "cache_error"
    /\ UNCHANGED <<cache, clouds, capabilities, allowed_clouds, clouds_to_check,
                   config_allowed_cloud_names, combinations, check_results,
                   enabled_clouds, disabled_clouds, capability_idx,
                   previously_enabled_clouds_set, all_enabled_clouds,
                   behaviours, previous, reads, writes>>

NextCacheFailure ==
    \/ Next
    \/ ReadCacheRaises /\ UNCHANGED <<caller, second>>
    \/ WriteCacheRaises /\ UNCHANGED <<caller, second>>

SpecCacheFailure == Init /\ [][NextCacheFailure]_vars

(***************************************************************************)
(* Vocabulary of the properties, stated from the inputs and from what the  *)
(* probes did, not from the run's intermediate values.                     *)
(***************************************************************************)
\* a pseudo-provider: the name starts with 'Cloudflare'
IsPseudoProvider(n) ==
    /\ Len(n) >= 10
    /\ SubSeq(n, 1, 10) = <<"C", "l", "o", "u", "d", "f", "l", "a", "r", "e">>

NonPseudo(S) == {n \in S : ~IsPseudoProvider(n)}

\* a name that is neither registered nor a 'cloudflare' name
NameUnresolvable(n) ==
    /\ from_str(n) = NotFound
    /\ ~(Len(n) >= 10 /\ lower(SubSeq(n, 1, 10)) = cloudflare_prefix)

\* the providers the configuration of the run allows, pseudo-providers included
AllowListAll ==
    {get_cloud_tuple(allowed_list(allowed_clouds)[k]) :
        k \in 1..Len(allowed_list(allowed_clouds))}

\* the AllowList, pseudo-providers excluded
AllowList == NonPseudo(AllowListAll)

\* the positions of the pair (p, c) among the dispatched pairs
PositionsOf(p, c) == {i \in 1..Len(combinations) : combinations[i] = <<p, c>>}

ProbePassed(i) == behaviours[i].raises = "no" /\ behaviours[i].ok
ProbeFailed(i) ==
    \/ behaviours[i].raises = "Exception"
    \/ behaviours[i].raises = "no" /\ ~behaviours[i].ok
ProbeUnsupported(i) == behaviours[i].raises = "NotSupportedError"

\* providers whose probe for c succeeded / failed in this run
Passed(c) == {p \in Names : \E i \in PositionsOf(p, c) : ProbePassed(i)}
Failed(c) == {p \in Names : \E i \in PositionsOf(p, c) : ProbeFailed(i)}

\* the run got past the fold of lines 109-121
Aggregated == pc \in {"read", "write", "done"} /\ outcome # "error"

\* the run has written the EnabledState of c
Written(c) == writes[c] > 0

\* d.get(k, [])
DictGet(d, k) == IF k \in DOMAIN d THEN d[k] ELSE <<>>

Count(list, x) == Cardinality({i \in 1..Len(list) : list[i] = x})

(***************************************************************************)
(* C1                                                                      *)
(***************************************************************************)
\* C1: the EnabledState a run writes for a capability is a subset of the
\* run's AllowList (pseudo-providers excluded): a provider outside the
\* AllowList is not in it, even when it was enabled before the run.
C1_WrittenWithinAllowList ==
    \A c \in Capabilities : Written(c) => cache[c] \subseteq AllowList

\* a previously enabled provider was left out of the AllowList and is gone
C1_Witness ==
    \E c \in Capabilities :
        /\ Written(c)
        /\ \E p \in previous[c] : p \notin AllowList /\ p \notin cache[c]
        /\ cache[c] # {}

(***************************************************************************)
(* C2                                                                      *)
(***************************************************************************)
\* C2: the set a run persists for a requested capability c is
\* allowed \cap ((previously_enabled(c) \cup passed(c)) \ failed(c)), each
\* operand without pseudo-providers; with the two scenarios of the spec.
C2_ReconciliationFormula ==
    /\ \A c \in Capabilities :
          Written(c) =>
            cache[c] = AllowList \cap
                         ((NonPseudo(previous[c]) \cup NonPseudo(Passed(c)))
                            \ NonPseudo(Failed(c)))
    /\ ( /\ Written(COMPUTE)
         /\ AllowList = {AWS, GCP}
         /\ previous[COMPUTE] = {AWS}
         /\ AWS \in Failed(COMPUTE)
         /\ GCP \in Passed(COMPUTE) \ Failed(COMPUTE) )
       => cache[COMPUTE] = {GCP}
    /\ ( /\ Written(COMPUTE)
         /\ AllowList = {AWS}
         /\ previous[COMPUTE] = {AWS, GCP}
         /\ AWS \in Passed(COMPUTE) \ Failed(COMPUTE) )
       => /\ cache[COMPUTE] = {AWS}
          /\ PositionsOf(GCP, COMPUTE) = {}

\* the first scenario: AllowList {A, B}, previous {A}, A fails, B succeeds
C2_Witness ==
    /\ Written(COMPUTE)
    /\ AllowList = {AWS, GCP}
    /\ previous[COMPUTE] = {AWS}
    /\ AWS \in Failed(COMPUTE)
    /\ GCP \in Passed(COMPUTE)
    /\ cache[COMPUTE] = {GCP}

\* the second scenario: AllowList {A}, previous {A, C}, A succeeds
C2_SecondScenario ==
    /\ Written(COMPUTE)
    /\ AllowList = {AWS}
    /\ previous[COMPUTE] = {AWS, GCP}
    /\ AWS \in Passed(COMPUTE)
    /\ cache[COMPUTE] = {AWS}

(***************************************************************************)
(* C3                                                                      *)
(***************************************************************************)
\* C3: a probe whose check_credentials raises an error other than
\* NotSupportedError yields a failed outcome with a non-empty reason and the
\* run goes on: it does not end in an error, and once it is past the probes
\* every pair has been probed and every outcome is in enabled_clouds or
\* disabled_clouds.
C3_RaisingProbeIsFailedOutcome ==
    \A i \in 1..Len(behaviours) :
        behaviours[i].raises = "Exception" =>
          /\ check_results[i] # None
          /\ check_results[i][1] = combinations[i][2]
          /\ check_results[i][2] = FALSE
          /\ check_results[i][3] # None
          /\ check_results[i][3] # <<>>
          /\ outcome # "error"
          /\ pc \in {"probing", "read", "write", "done"}
          /\ Aggregated =>
               /\ combinations[i][2] \in
                    Range(DictGet(disabled_clouds, combinations[i][1]))
               /\ \A j \in 1..Len(combinations) :
                    /\ behaviours[j] # NotYet
                    /\ check_results[j] # Pending
                    /\ check_results[j] # None =>
                         combinations[j][2] \in
                           Range(DictGet(IF check_results[j][2]
                                         THEN enabled_clouds
                                         ELSE disabled_clouds,
                                         combinations[j][1]))
          /\ pc = "done" => \A c \in Range(capabilities) : Written(c)

\* a probe raised, another provider's probe passed, and the run returned
C3_Witness ==
    /\ pc = "done"
    /\ outcome = "returned"
    /\ \E i, j \in 1..Len(behaviours) :
          /\ behaviours[i].raises = "Exception"
          /\ ProbePassed(j)
          /\ combinations[i][1] # combinations[j][1]
          /\ combinations[j][1] \in DOMAIN enabled_clouds

(***************************************************************************)
(* C4                                                                      *)
(***************************************************************************)
\* C4: every dispatched pair whose probe does not signal 'not supported'
\* yields exactly one outcome, counted once in exactly one of enabled_clouds
\* and disabled_clouds for its capability; a pair whose probe signals 'not
\* supported' yields no outcome and is counted in neither.
C4_OneOutcomePerPair ==
    /\ \A i \in 1..Len(behaviours) :
          behaviours[i] # NotYet =>
            /\ (check_results[i] = None) <=> ProbeUnsupported(i)
            /\ check_results[i] # None =>
                 /\ Len(check_results[i]) = 3
                 /\ check_results[i][1] = combinations[i][2]
                 /\ check_results[i][2] <=> ProbePassed(i)
    /\ Aggregated =>
         \A p \in Names, c \in Capabilities :
            /\ Count(DictGet(enabled_clouds, p), c) =
                 Cardinality({i \in PositionsOf(p, c) : ProbePassed(i)})
            /\ Count(DictGet(disabled_clouds, p), c) =
                 Cardinality({i \in PositionsOf(p, c) : ProbeFailed(i)})
            /\ Cardinality(PositionsOf(p, c)) = 1 =>
                 LET i == CHOOSE k \in PositionsOf(p, c) : TRUE
                     in_passed == c \in Range(DictGet(enabled_clouds, p))
                     in_failed == c \in Range(DictGet(disabled_clouds, p))
                 IN  /\ ProbeUnsupported(i) => ~in_passed /\ ~in_failed
                     /\ ~ProbeUnsupported(i) => (in_passed <=> ~in_failed)
    /\ Aggregated =>
         /\ \A p \in DOMAIN enabled_clouds : enabled_clouds[p] # <<>>
         /\ \A p \in DOMAIN disabled_clouds : disabled_clouds[p] # <<>>

\* one provider passed a capability and is not supported for the other,
\* another provider failed
C4_Witness ==
    /\ Aggregated
    /\ \E i, j, k \in 1..Len(behaviours) :
          /\ ProbeUnsupported(i)
          /\ ProbePassed(j)
          /\ ProbeFailed(k)
          /\ combinations[i][1] = combinations[j][1]
          /\ enabled_clouds[combinations[j][1]] = <<combinations[j][2]>>

(***************************************************************************)
(* C5                                                                      *)
(***************************************************************************)
\* C5: a run ends in SystemExit exactly when the union, over the requested
\* capabilities, of the EnabledState sets it wrote is empty.
C5_SystemExitIffUnionEmpty ==
    (pc = "done" /\ outcome # "error") =>
        /\ outcome \in {"SystemExit", "returned"}
        /\ \A c \in Range(capabilities) : Written(c)
        /\ outcome = "SystemExit" <=>
             UNION {cache[c] : c \in Range(capabilities)} = {}

\* the first capability written ended empty, the second did not: no SystemExit
C5_Witness ==
    /\ pc = "done"
    /\ outcome = "returned"
    /\ Len(capabilities) = 2
    /\ cache[capabilities[1]] # {}
    /\ cache[capabilities[2]] = {}

(***************************************************************************)
(* C6                                                                      *)
(***************************************************************************)
\* no probe of the run returned ok = true
NoProbePassed == \A i \in 1..Len(behaviours) : ~ProbePassed(i)

\* C6 as stated: when no provider passes any capability in a run (pairs
\* were probed, none returned ok = true), the run ends in SystemExit,
\* whatever the cached EnabledState and the AllowList.
C6_ZeroPassedMeansSystemExit ==
    ( /\ pc = "done"
      /\ outcome # "error"
      /\ combinations # <<>>
      /\ NoProbePassed )
    => outcome = "SystemExit"

\* C6 amended: when no provider passes any capability in a run and every
\* provider previously enabled for a requested capability is outside the
\* AllowList or failed its probe for that capability in this run, the run
\* ends in SystemExit.
C6_ZeroPassedNoCarryOverMeansSystemExit ==
    ( /\ pc = "done"
      /\ outcome # "error"
      /\ NoProbePassed
      /\ \A c \in Range(capabilities) :
            previous[c] \cap AllowListAll \subseteq Failed(c) )
    => outcome = "SystemExit"

\* a previously enabled provider failed its probe, nothing passed: SystemExit
C6_Witness ==
    /\ pc = "done"
    /\ outcome = "SystemExit"
    /\ NoProbePassed
    /\ \E c \in Range(capabilities) :
          /\ previous[c] \cap AllowListAll # {}
          /\ previous[c] \cap AllowListAll \subseteq Failed(c)

(***************************************************************************)
(* C7                                                                      *)
(***************************************************************************)
\* C7: no pseudo-provider is ever in a cached EnabledState, also when it is
\* in the AllowList and its probe succeeds; it is in enabled_clouds, the
\* value the run returns.
C7_PseudoProviderNeverCached ==
    /\ \A c \in Capabilities : \A n \in cache[c] : ~IsPseudoProvider(n)
    /\ Aggregated =>
         \A i \in 1..Len(combinations) :
            (IsPseudoProvider(combinations[i][1]) /\ ProbePassed(i)) =>
               /\ combinations[i][1] \in DOMAIN enabled_clouds
               /\ combinations[i][2] \in Range(enabled_clouds[combinations[i][1]])

\* an allowed pseudo-provider passed, the run wrote the cache and returned
C7_Witness ==
    /\ pc = "done"
    /\ outcome = "returned"
    /\ \E i \in 1..Len(combinations) :
          /\ IsPseudoProvider(combinations[i][1])
          /\ combinations[i][1] \in AllowListAll
          /\ ProbePassed(i)
          /\ Written(combinations[i][2])
          /\ combinations[i][1] \in DOMAIN enabled_clouds

(***************************************************************************)
(* C8                                                                      *)
(***************************************************************************)
\* the capability the reconciliation loop has just written
JustWritten == pc = "read" /\ capability_idx > 1
LastCapability == capabilities[capability_idx - 1]

\* C8: reconciliation is idempotent: a second run with the same pairs, the
\* same probe results and the same AllowList, which reads what the first run
\* wrote, writes the same EnabledState again.
C8_ReconciliationIdempotent ==
    JustWritten =>
        LET c == LastCapability
            dicts == aggregate(1, combinations, check_results, <<>>, <<>>)
        IN  enabled_clouds_for_capability(
              config_allowed_cloud_names,
              get_cached_enabled_clouds(c),
              clouds_set(dicts[1], c),
              clouds_set(dicts[2], c)) = cache[c]

\* the first run changed the EnabledState: one provider in, one out
C8_Witness ==
    /\ JustWritten
    /\ cache[LastCapability] \ previous[LastCapability] # {}
    /\ previous[LastCapability] \ cache[LastCapability] # {}

(***************************************************************************)
(* C9                                                                      *)
(***************************************************************************)
\* C9: the EnabledState written for capability c does not depend on the
\* probes of another capability: whatever such a probe had done instead
\* (pass, fail, not supported, raise), the set written for c is the same.
C9_CapabilitiesIndependent ==
    JustWritten =>
        LET c == LastCapability
        IN  \A j \in 1..Len(combinations), b \in CredentialBehaviours :
               combinations[j][2] # c =>
                 LET results == [check_results EXCEPT
                                   ![j] = check_one_cloud_one_capability(
                                            combinations[j], b)]
                     dicts == aggregate(1, combinations, results, <<>>, <<>>)
                 IN  enabled_clouds_for_capability(
                       config_allowed_cloud_names,
                       previously_enabled_clouds_set,
                       clouds_set(dicts[1], c),
                       clouds_set(dicts[2], c)) = cache[c]

\* a provider passed c and failed the other capability (and the other way
\* round for a previously enabled one): each set follows its own probes
C9_Witness ==
    /\ JustWritten
    /\ \E i, j \in 1..Len(combinations) :
          /\ combinations[i][1] = combinations[j][1]
          /\ combinations[i][2] = LastCapability
          /\ combinations[j][2] # LastCapability
          /\ ProbePassed(i)
          /\ ProbeFailed(j)
          /\ combinations[i][1] \in cache[LastCapability]

(***************************************************************************)
(* C10                                                                     *)
(***************************************************************************)
\* a name of the list cannot be resolved
HasUnresolvable(list) == \E k \in 1..Len(list) : NameUnresolvable(list[k])

\* C10: a run whose requested names or configured allow-list hold a name
\* that cannot be resolved ends in an error at once: no probe is started,
\* the cache is neither read nor written, and it stays as it was.
C10_UnresolvableFailsFast ==
    [][ /\ ( /\ pc = "idle"
             /\ pc' # "idle"
             /\ \/ HasUnresolvable(cloud_list(clouds'))
                \/ HasUnresolvable(allowed_list(allowed_clouds')) )
           => /\ pc' = "done"
              /\ outcome' = "error"
              /\ combinations' = <<>>
              /\ behaviours' = <<>>
              /\ reads' = NoCounts
              /\ writes' = NoCounts
              /\ cache' = cache
        /\ outcome = "error"
           => /\ pc' = "idle"
              /\ cache' = cache
      ]_vars

\* the requested names resolve, a name of the configuration does not
C10_Witness ==
    /\ pc = "done"
    /\ outcome = "error"
    /\ ~HasUnresolvable(cloud_list(clouds))
    /\ HasUnresolvable(allowed_list(allowed_clouds))
    /\ \E c \in Capabilities : cache[c] # {}

(***************************************************************************)
(* C11                                                                     *)
(***************************************************************************)
\* every probe of the run has completed
AllProbesCompleted ==
    \A i \in 1..Len(check_results) : check_results[i] # Pending

\* C11: in a run that gets past the matrix, the cache entry of each requested
\* capability is read once and then written exactly once, every such read
\* and write after all probes completed; the write happens whatever the set
\* is, also in a run that ends in SystemExit, and the cache is touched in no
\* other phase.
C11_ReadOnceThenWrittenOnce ==
    [][ /\ \A c \in Capabilities :
              /\ ( \/ reads'[c] > reads[c]
                   \/ writes'[c] > writes[c]
                   \/ cache'[c] # cache[c] )
                 => /\ pc \in {"read", "write"}
                    /\ AllProbesCompleted
                    /\ Len(check_results) = Len(combinations)
                    /\ c \in Range(capabilities)
              /\ reads'[c] > reads[c] => reads[c] = 0 /\ writes[c] = 0
              /\ writes'[c] > writes[c] => reads[c] = 1 /\ writes[c] = 0
              /\ cache'[c] # cache[c] => writes'[c] = writes[c] + 1
        /\ (pc' = "done" /\ outcome' \in {"returned", "SystemExit"})
             => \A c \in Capabilities :
                   IF c \in Range(capabilities')
                   THEN reads'[c] = 1 /\ writes'[c] = 1
                   ELSE reads'[c] = 0 /\ writes'[c] = 0
      ]_vars

\* a probed run ends in SystemExit after writing the empty set, which is what
\* it had read, for both capabilities
C11_Witness ==
    /\ pc = "done"
    /\ outcome = "SystemExit"
    /\ combinations # <<>>
    /\ Len(capabilities) = 2
    /\ \A c \in Capabilities :
          writes[c] = 1 /\ reads[c] = 1 /\ cache[c] = {} /\ previous[c] = {}

(***************************************************************************)
(* C12                                                                     *)
(***************************************************************************)
\* C12: when the cache read or the cache write of one requested capability
\* raises, every other requested capability is still reconciled and written
\* in that run.
C12_OtherCapabilitiesStillWritten ==
    (pc = "done" /\ outcome = "cache_error" /\ combinations # <<>>)
      => \A k \in 1..Len(capabilities) :
            k # capability_idx => writes[capabilities[k]] = 1

(***************************************************************************)
(* C13                                                                     *)
(***************************************************************************)
\* the providers the caller asked for, pseudo-providers included
Requested ==
    {get_cloud_tuple(cloud_list(clouds)[k]) : k \in 1..Len(cloud_list(clouds))}

\* C13: the pairs dispatched are exactly (requested \cap AllowList) x
\* requested capabilities, the pseudo-provider being filtered by the
\* AllowList like any other: a provider outside it is never probed.
C13_OnlyAllowListProbed ==
    (pc # "idle" /\ outcome # "error")
      => /\ Range(combinations) =
              (Requested \cap AllowListAll) \X Range(capabilities)
         /\ \A i \in 1..Len(behaviours) :
              behaviours[i] # NotYet => combinations[i][1] \in AllowListAll
         /\ cloudflare_NAME \notin AllowListAll
              => \A i \in 1..Len(combinations) :
                    ~IsPseudoProvider(combinations[i][1])

\* the pseudo-provider and AWS were asked for, the AllowList holds only AWS,
\* and the probes that ran are those of AWS
C13_Witness ==
    /\ pc = "done"
    /\ outcome \in {"returned", "SystemExit"}
    /\ cloudflare_NAME \in Requested
    /\ AWS \in Requested
    /\ AllowListAll = {AWS}
    /\ combinations # <<>>
    /\ \A i \in 1..Len(combinations) :
          combinations[i][1] = AWS /\ behaviours[i] # NotYet

(***************************************************************************)
(* C14                                                                     *)
(***************************************************************************)
\* what the cache held for the capability asked for when the call began
CachedOnEntry == caller.entry[caller.capability]

\* C14: get_cached_enabled_clouds_or_refresh refreshes only when the cache
\* entry of the capability asked for is empty. Non-empty on entry: no probe
\* runs, nothing is written and the cached set is returned as it was. Empty
\* on entry: exactly one check run is made and what is returned is the cache
\* entry read again after that run.
C14_RefreshOnlyWhenEmpty ==
    /\ caller.runs <= 1
    /\ (caller.pc # "none" /\ CachedOnEntry # {})
         => /\ caller.runs = 0
            /\ pc = "idle"
            /\ behaviours = <<>>
            /\ writes = NoCounts
            /\ cache = caller.entry
            /\ caller.pc = "done"
                 => /\ caller.result = "returned"
                    /\ caller.cached_enabled_clouds = CachedOnEntry
    /\ (caller.pc = "done" /\ CachedOnEntry = {})
         => /\ caller.runs = 1
            /\ pc = "done"
            /\ caller.result = "returned"
                 => caller.cached_enabled_clouds = cache[caller.capability]

\* the entry was empty, one run was made and what it wrote is returned
C14_Witness ==
    /\ caller.pc = "done"
    /\ CachedOnEntry = {}
    /\ caller.runs = 1
    /\ Written(caller.capability)
    /\ caller.result = "returned"
    /\ caller.cached_enabled_clouds # {}
    /\ caller.cached_enabled_clouds = cache[caller.capability]

(***************************************************************************)
(* C15                                                                     *)
(***************************************************************************)
\* C15: the call raises NoCloudAccessError exactly when
\* raise_if_no_cloud_access is set and the cache entry of the capability is
\* still empty after the refresh, if one was made; the SystemExit of the
\* refresh never leaves the call; without the flag the empty list is
\* returned. (A refresh that stops on a name that does not resolve, C10,
\* passes that error on; it is not SystemExit.)
C15_NoCloudAccessErrorIff ==
    caller.pc = "done"
      => /\ caller.result \in {"returned", "NoCloudAccessError", "error"}
         /\ caller.result = "error" <=> (caller.runs = 1 /\ outcome = "error")
         /\ caller.result # "error"
              => /\ caller.result = "NoCloudAccessError"
                      <=> /\ caller.raise_if_no_cloud_access
                          /\ cache[caller.capability] = {}
                 /\ caller.result = "returned"
                      => caller.cached_enabled_clouds = cache[caller.capability]
         /\ outcome = "SystemExit"
              => caller.result =
                   IF /\ caller.raise_if_no_cloud_access
                      /\ cache[caller.capability] = {}
                   THEN "NoCloudAccessError" ELSE "returned"

\* the refresh ended in SystemExit and the call returns the empty list
C15_Witness ==
    /\ caller.pc = "done"
    /\ outcome = "SystemExit"
    /\ combinations # <<>>
    /\ ~caller.raise_if_no_cloud_access
    /\ caller.result = "returned"
    /\ caller.cached_enabled_clouds = {}

(***************************************************************************)
(* C16                                                                     *)
(***************************************************************************)
\* C16: called for capability c with an empty cache entry, the refresh
\* probes and reconciles c, so that an allowed provider whose probe for c
\* succeeds is in the returned list, for COMPUTE and for STORAGE.
C16_RefreshReconcilesAskedCapability ==
    ( /\ caller.pc = "done"
      /\ caller.runs = 1
      /\ caller.result # "error"
      /\ combinations # <<>> )
      => /\ caller.capability \in Range(capabilities)
         /\ Range(combinations) =
              (Requested \cap AllowListAll) \X {caller.capability}
         /\ Written(caller.capability)
         /\ \A p \in AllowList :
              p \in Passed(caller.capability) \ Failed(caller.capability)
                => p \in caller.cached_enabled_clouds

(***************************************************************************)
(* C17                                                                     *)
(***************************************************************************)
\* the capabilities of the pairs of p whose probe passed (pass) or failed
\* (~pass), in the order of the pairs
OutcomesOf(p, pass) ==
    LET n == Len(combinations)
        idx == SelectSeq([i \in 1..n |-> i],
                         LAMBDA i : /\ combinations[i][1] = p
                                    /\ IF pass THEN ProbePassed(i)
                                               ELSE ProbeFailed(i))
    IN  [k \in 1..Len(idx) |-> combinations[idx[k]][2]]

\* the dict the outcomes of the pairs make, by position
OutcomeDict(pass) ==
    [p \in {q \in Names : OutcomesOf(q, pass) # <<>>} |-> OutcomesOf(p, pass)]

\* C17: whatever the order in which the probes complete, each outcome is
\* attributed to the pair at its position, so the passed and failed sets,
\* the EnabledState written and the mapping returned depend only on what
\* each pair's probe did; an empty list of pairs gives an empty list of
\* results and no error.
C17_CompletionOrderIrrelevant ==
    (pc # "idle" /\ outcome # "error")
      => /\ Len(check_results) = Len(combinations)
         /\ \A i \in 1..Len(combinations) :
              /\ (check_results[i] = Pending) <=> (behaviours[i] = NotYet)
              /\ check_results[i] \notin {Pending, None}
                   => /\ check_results[i][1] = combinations[i][2]
                      /\ check_results[i][2] <=> ProbePassed(i)
         /\ Aggregated
              => /\ enabled_clouds = OutcomeDict(TRUE)
                 /\ disabled_clouds = OutcomeDict(FALSE)
                 /\ \A c \in Capabilities :
                      Written(c) =>
                        cache[c] =
                          NonPseudo(AllowListAll \cap
                            ((previous[c] \cup
                                {p \in Names : c \in Range(OutcomesOf(p, TRUE))})
                             \ {p \in Names : c \in Range(OutcomesOf(p, FALSE))}))
                 /\ pc = "done" => returned_enabled_clouds = OutcomeDict(TRUE)
         /\ combinations = <<>>
              => /\ check_results = <<>>
                 /\ Aggregated => enabled_clouds = <<>> /\ disabled_clouds = <<>>
                 /\ pc = "done" => outcome \in {"returned", "SystemExit"}

\* the probe of the last pair passed before the probe of the first pair
\* completed, and its result is at the last position
C17_Witness ==
    /\ pc = "probing"
    /\ Len(combinations) >= 2
    /\ check_results[1] = Pending
    /\ ProbePassed(Len(combinations))
    /\ check_results[Len(combinations)] =
         <<combinations[Len(combinations)][2], TRUE, None>>
    /\ combinations[1][1] # combinations[Len(combinations)][1]

(***************************************************************************)
(* C18                                                                     *)
(***************************************************************************)
\* C18: when every probe returns or raises, a run that dispatched its probes
\* ends (it returns or raises SystemExit) with the probe of every pair
\* invoked; a probe that completed is not invoked again, whatever its
\* outcome, and no pair is left out because another probe failed.
C18_TerminatesEachProbeOnce ==
    /\ (pc = "probing")
         ~> ( /\ pc = "done"
              /\ outcome \in {"returned", "SystemExit"}
              /\ \A i \in 1..Len(combinations) : behaviours[i] # NotYet )
    /\ [][ \A i \in 1..Len(behaviours) :
              (behaviours[i] # NotYet /\ pc' # "idle")
                => /\ Len(behaviours') = Len(behaviours)
                   /\ behaviours'[i] = behaviours[i]
                   /\ check_results'[i] = check_results[i]
          ]_vars
    /\ [][ pc = "probing" /\ pc' # "probing"
              => \A i \in 1..Len(combinations) : behaviours[i] # NotYet
          ]_vars

\* a run ended with a failed probe next to probes that ran after it failed
C18_Witness ==
    /\ pc = "done"
    /\ outcome \in {"returned", "SystemExit"}
    /\ Len(combinations) >= 3
    /\ ProbeFailed(1)
    /\ \A i \in 2..Len(combinations) : ProbePassed(i) \/ ProbeUnsupported(i)
    /\ \E i \in 2..Len(combinations) : ProbePassed(i)

(***************************************************************************)
(* C19                                                                     *)
(***************************************************************************)
\* C19: a provider enabled for c before a run is still enabled after it
\* unless the run recorded a failed probe of it for c or its AllowList leaves
\* it out; so it stays when it was not requested or not supported. A
\* provider not enabled for c before is enabled after only if its probe for
\* c passed in the run. The entry of a capability not requested is left.
C19_StickyMembership ==
    [][ \A c \in Capabilities :
          /\ \A p \in Names :
                /\ (p \in cache[c] /\ p \notin cache'[c])
                     => (p \in Failed(c) \/ p \notin AllowList)
                /\ (p \notin cache[c] /\ p \in cache'[c])
                     => p \in Passed(c)
          /\ cache'[c] # cache[c]
               => /\ pc = "write"
                  /\ c = capabilities[capability_idx]
                  /\ cache[c] = previous[c]
      ]_vars

\* a run keeps a provider enabled before that it found not supported and
\* another that it did not probe
C19_Witness ==
    \E c \in Capabilities :
        /\ Written(c)
        /\ \E p \in previous[c] \cap cache[c] :
              /\ PositionsOf(p, c) # {}
              /\ \A i \in PositionsOf(p, c) : ProbeUnsupported(i)
        /\ \E q \in previous[c] \cap cache[c] :
              \A d \in Capabilities : PositionsOf(q, d) = {}

(***************************************************************************)
(* C20                                                                     *)
(***************************************************************************)
\* C20: the mapping check_capabilities returns holds exactly the providers
\* with a probe that passed in this run, each with exactly the capabilities
\* that passed: pseudo-providers are in it, providers enabled only by
\* carry-over are not; so check_capability(c) gives the providers that
\* passed c in this run, not the persisted EnabledState(c).
C20_ReturnedMappingIsThisRun ==
    (pc = "done" /\ outcome = "returned")
      => /\ DOMAIN returned_enabled_clouds =
              {p \in Names : \E c \in Capabilities : p \in Passed(c)}
         /\ \A p \in DOMAIN returned_enabled_clouds :
              Range(returned_enabled_clouds[p]) =
                {c \in Capabilities : p \in Passed(c)}
         /\ \A c \in Capabilities :
              capabilities = <<c>> => check_capability(c) = Passed(c)

\* check_capability(c) returns the pseudo-provider and not a provider that
\* the cache holds for c by carry-over
C20_Witness ==
    /\ pc = "done"
    /\ outcome = "returned"
    /\ \E c \in Capabilities :
          /\ capabilities = <<c>>
          /\ cloudflare_NAME \in check_capability(c)
          /\ \E p \in cache[c] : p \notin check_capability(c)
          /\ check_capability(c) # cache[c]

(***************************************************************************)
(* C21                                                                     *)
(***************************************************************************)
\* what the first run makes of the entry `prev` of capability c
ReconcileFirst(c, prev) ==
    IF c \in Range(capabilities)
    THEN enabled_clouds_for_capability(
           config_allowed_cloud_names, prev,
           clouds_set(enabled_clouds, c), clouds_set(disabled_clouds, c))
    ELSE prev

\* what the second run makes of the entry `prev` of capability c
ReconcileSecond(c, prev) ==
    IF c \in Range(second.capabilities)
    THEN enabled_clouds_for_capability(
           second.config_allowed_cloud_names, prev,
           clouds_set(second.enabled_clouds, c),
           clouds_set(second.disabled_clouds, c))
    ELSE prev

\* the cache after the two runs one after the other, from the cache they
\* both started on
FirstThenSecond ==
    [c \in Capabilities |-> ReconcileSecond(c, ReconcileFirst(c, second.base[c]))]
SecondThenFirst ==
    [c \in Capabilities |-> ReconcileFirst(c, ReconcileSecond(c, second.base[c]))]

\* C21: when two runs of check_capabilities overlap on the same cache store,
\* each get and set atomic, the cache they leave is the one the two runs
\* leave when run one after the other in some order: no provider one run
\* enabled is lost to the other run's write.
C21_ConcurrentRunsSerializable ==
    ( /\ pc = "done"
      /\ outcome # "error"
      /\ second.pc = "done"
      /\ combinations # <<>> )
      => (cache = FirstThenSecond \/ cache = SecondThenFirst)

====
